---- MODULE Spec2Model ----
(***************************************************************************)
(* BybitQSStrategy (directionalscalper/core/strategies/bybit/old/multi/    *)
(* bybit_qs.py): the per-symbol lock of run() and the perpetual loop of    *)
(* run_single_symbol(), as a state machine.  One strategy instance is      *)
(* shared by the dispatcher's worker threads; every thread is a worker of  *)
(* the model and a step of the model is the code between two calls that    *)
(* touch shared state or the exchange.                                     *)
(*                                                                         *)
(* Optional values (Python None) are sequences of length at most one:      *)
(* None is <<>>, a present value v is <<v>>.                               *)
(***************************************************************************)
EXTENDS Integers, Sequences, FiniteSets, TLC

\* ------------------------------------------------------------------ bounds

\* Seconds the clock advances in one step of the environment.
ClockStep == 900
\* The clock stops advancing here.
MaxClock == 3600
\* Longest list of raw position records get_all_open_positions_bybit returns
\* in the snapshot-build specification.
MaxRecords == 2
\* Largest size of a raw position record.
MaxSize == 2
\* Largest configured number of concurrently traded symbols.
MaxSymbolsAllowed == 2

\* ------------------------------------------------------- program constants

\* run_single_symbol: equity_refresh_interval = 1800
equity_refresh_interval == 1800
\* __init__: self.last_cancel_time = 0; nothing in this file assigns it again.
last_cancel_time == 0
\* __init__: self.spoofing_interval = 1
spoofing_interval == 1

\* ---------------------------------------------------------------- universe

Workers == {"t1", "t2"}
Symbols == {"AAA", "BBB"}
\* What the dispatcher passes to run(): any case.
InputSymbols == {"AAA", "aaa", "BBB"}

None == <<>>
Some(v) == <<v>>
IsNone(o) == o = <<>>
Val(o) == o[1]

\* str.upper() on the symbols the dispatcher passes.
Upper(s) ==
  CASE s = "aaa" -> "AAA"
    [] s = "bbb" -> "BBB"
    [] OTHER -> s

\* str.lower() on the side of a raw position record.
Lower(s) ==
  CASE s = "Buy" -> "buy"
    [] s = "Sell" -> "sell"
    [] s = "None" -> "none"
    [] OTHER -> s

\* A lock object: threading.Lock() created by worker w for symbol s.
Lock(s, w) == <<s, w>>

\* --------------------------------------------------- raw position records

\* info.get('symbol', '').split(':')[0]: a raw symbol is the list of its
\* parts between ':' characters; a record without the key gives ''.
SplitFirst(parts) == IF Len(parts) = 0 THEN "" ELSE parts[1]

RawSymbol(s) == <<s, "USDT">>

AllKeys == {"size", "side", "avgPrice"}

\* One raw record: position['info'] with the keys it holds.
Record(s, keys, side, size, price) ==
  [symbol |-> RawSymbol(s), keys |-> keys, side |-> side, size |-> size,
   avgPrice |-> price]

Sides == {"Buy", "Sell", "None"}
AvgPrices == {5, 7}

WellFormedRecords ==
  { Record(s, AllKeys, sd, q, p) :
      s \in Symbols, sd \in Sides, q \in 0..MaxSize, p \in AvgPrices }

MalformedRecords ==
  { Record(s, AllKeys \ {k}, "Buy", MaxSize, 7) : s \in Symbols, k \in AllKeys }

RawRecords == WellFormedRecords \cup MalformedRecords

\* The lists of at most n elements of S.
SeqsUpTo(S, n) == UNION { [1..k -> S] : k \in 0..n }

\* Position lists of the snapshot-build specification: every list of at most
\* MaxRecords raw records.
WidePositionLists == SeqsUpTo(RawRecords, MaxRecords)

\* Lists of three records: a malformed record between two well-formed
\* records of one symbol.
SandwichLists ==
  { << Record(s, AllKeys, sd, q1, 5), m, Record(s, AllKeys, sd, q2, 7) >> :
      s \in {"AAA"}, sd \in {"Buy", "Sell"}, q1 \in 1..MaxSize, q2 \in 1..MaxSize,
      m \in MalformedRecords }

\* Position lists the exchange returns in the loop specifications.
LoopPositionLists ==
  { <<>>,
    << Record("AAA", AllKeys, "Buy", 1, 5) >>,
    << Record("BBB", AllKeys, "Sell", 1, 5) >>,
    << Record("AAA", AllKeys, "Buy", 1, 5), Record("AAA", AllKeys, "Sell", 1, 7) >> }

\* ------------------------------------------------- snapshot build (143-167)

\* line 157: the entry created for a symbol seen for the first time.
EmptyDetails ==
  [long |-> [qty |-> 0, avg_price |-> 0], short |-> [qty |-> 0, avg_price |-> 0]]

\* HasRequiredKeys with a fault: only 'size' is looked for.
HasRequiredKeysSizeOnly(r) == "size" \in r.keys

\* line 150: 'size' in info and 'side' in info and 'avgPrice' in info
HasRequiredKeys(r) == AllKeys \subseteq r.keys

\* Accumulate with a fault: the quantity is overwritten instead of summed.
AccumulateOverwrite(entry, size, price) ==
  [qty |-> size, avg_price |-> price]

\* lines 161-162 and 164-165: qty += size; avg_price = avg_price of the record
Accumulate(entry, size, price) ==
  [qty |-> entry.qty + size, avg_price |-> price]

\* lines 146-167: the body of the for loop, applied to position_details.
AddPosition(details, r) ==
  IF ~HasRequiredKeys(r) THEN details
  ELSE
    LET position_symbol == SplitFirst(r.symbol)
        d == IF position_symbol \in DOMAIN details THEN details
             ELSE details @@ (position_symbol :> EmptyDetails)
        side == Lower(r.side)
    IN  IF side = "buy"
        THEN [d EXCEPT ![position_symbol].long = Accumulate(@, r.size, r.avgPrice)]
        ELSE IF side = "sell"
        THEN [d EXCEPT ![position_symbol].short = Accumulate(@, r.size, r.avgPrice)]
        ELSE d

\* lines 143-167: position_details = {} and the for loop over the records.
RECURSIVE BuildFrom(_, _, _)
BuildFrom(details, data, i) ==
  IF i > Len(data) THEN details
  ELSE BuildFrom(AddPosition(details, data[i]), data, i + 1)

BuildPositionDetails(data) == BuildFrom(<<>>, data, 1)

\* position_details.get(symbol, {}).get(side, {}).get('qty', 0)
DetailsQty(details, s, side) ==
  IF s \in DOMAIN details THEN details[s][side].qty ELSE 0

\* position_details.get(symbol, {}).get(side, {}).get('avg_price', None)
DetailsAvgPrice(details, s, side) ==
  IF s \in DOMAIN details THEN Some(details[s][side].avg_price) ELSE None

\* extract_symbols_from_positions_bybit and line 170: the symbols of the
\* open positions.
ExtractSymbols(data) == { SplitFirst(data[i].symbol) : i \in DOMAIN data }

\* CanTradeNewSymbol with a fault: only the count of open symbols decides.
CanTradeNewSymbolCountOnly(open, allowed, s) ==
  Cardinality(open) < allowed

\* can_trade_new_symbol(open_symbols, symbols_allowed, symbol): a symbol that
\* is open may always be traded, another one while fewer than symbols_allowed
\* symbols are open.
CanTradeNewSymbol(open, allowed, s) ==
  s \in open \/ Cardinality(open) < allowed

\* ------------------------------------------------------------------- state

VARIABLES
  now,                  \* the wall clock: time.time() and datetime.now()
  symbol_locks,         \* line 16: symbol -> lock object, None while the key is absent
  held,                 \* the lock objects that are locked
  acquired,             \* per worker: the lock object its acquire() at line 50 locked
  positions,            \* exchange: what get_all_open_positions_bybit returns
  tp_orders,            \* exchange: open take-profit orders per symbol and side
  last_known_ask,       \* line 22: self.last_known_ask
  last_known_bid,       \* line 23: self.last_known_bid
  live_ask,             \* exchange: the last non-empty best ask it returned, per symbol
  live_bid,             \* exchange: the last non-empty best bid it returned, per symbol
  next_long_tp_update,  \* line 28: self.next_long_tp_update
  next_short_tp_update, \* line 29: self.next_short_tp_update
  blacklist,            \* self.config.blacklist
  symbols_allowed,      \* self.symbols_allowed
  test_orders_enabled,  \* line 38: self.config.test_orders_enabled
  shared_symbols_data,  \* line 12: the shared status table
  pc,                   \* per worker: where it is in run() / run_single_symbol()
  symbol,               \* per worker: standardized_symbol of its run() call
  rotator,              \* per worker: rotator_symbols_standardized of its run() call
  loc,                  \* per worker: the local variables of run_single_symbol()
  calls                 \* per worker: the collaborator calls of the current iteration
                        \* (of the start-up, before the first iteration), in order

vars ==
  << now, symbol_locks, held, acquired, positions, tp_orders, last_known_ask,
     last_known_bid, live_ask, live_bid, next_long_tp_update, next_short_tp_update,
     blacklist, symbols_allowed, test_orders_enabled, shared_symbols_data, pc, symbol,
     rotator, loc, calls >>

lockVars == << symbol_locks, held, acquired >>
bookVars == << last_known_ask, last_known_bid, live_ask, live_bid >>
tpTimeVars == << next_long_tp_update, next_short_tp_update >>
configVars == << blacklist, symbols_allowed, test_orders_enabled >>
callVars == << pc, symbol, rotator >>

\* lines 64-83 and 115: the locals of run_single_symbol() at its start. The
\* names the code binds only inside the loop start absent.
InitialLocals ==
  [ total_equity |-> None,
    available_equity |-> None,
    last_equity_fetch_time |-> 0,
    current_time |-> 0,
    open_position_data |-> <<>>,
    position_details |-> <<>>,
    open_symbols |-> {},
    order_book |-> <<>>,
    best_ask_price |-> None,
    best_bid_price |-> None,
    trading_allowed |-> FALSE,
    five_minute_distance |-> None,
    previous_five_minute_distance |-> None,
    long_pos_qty |-> 0,
    short_pos_qty |-> 0,
    long_pos_price |-> None,
    short_pos_price |-> None,
    long_take_profit |-> None,
    short_take_profit |-> None,
    tp_order_counts |-> [long_tp_count |-> 0, short_tp_count |-> 0] ]

\* calculate_next_update_time(): a time strictly after the current one.
CalculateNextUpdateTime(t) == t + ClockStep

\* __init__ (lines 19-40) of the one strategy instance, the module-level
\* symbol_locks = {} (line 16) and an exchange holding the given positions.
InitWith(positionLists, blacklists, allowed, testOrders) ==
  /\ now = ClockStep
  /\ symbol_locks = [s \in Symbols |-> None]
  /\ held = {}
  /\ acquired = [w \in Workers |-> None]
  /\ positions \in positionLists
  /\ tp_orders = [s \in Symbols |-> [long |-> 0, short |-> 0]]
  /\ last_known_ask = [s \in Symbols |-> None]
  /\ last_known_bid = [s \in Symbols |-> None]
  /\ live_ask = [s \in Symbols |-> None]
  /\ live_bid = [s \in Symbols |-> None]
  /\ next_long_tp_update = CalculateNextUpdateTime(now)
  /\ next_short_tp_update = CalculateNextUpdateTime(now)
  /\ blacklist \in blacklists
  /\ symbols_allowed \in allowed
  /\ test_orders_enabled \in testOrders
  /\ shared_symbols_data = [s \in Symbols |-> None]
  /\ pc = [w \in Workers |-> "idle"]
  /\ symbol = [w \in Workers |-> ""]
  /\ rotator = [w \in Workers |-> {}]
  /\ loc = [w \in Workers |-> InitialLocals]
  /\ calls = [w \in Workers |-> <<>>]

\* ------------------------------------------------------------ environment

\* Time passes: the sleeps of the loop and the blocking collaborator calls.
\* The code reads the clock at lines 131 and 404 only, so the clock of the
\* model moves when a worker is about to read it.
Tick ==
  /\ \E w \in Workers : pc[w] \in {"fetch", "resched"}
  /\ now + ClockStep <= MaxClock
  /\ now' = now + ClockStep
  /\ UNCHANGED << lockVars, positions, tp_orders, bookVars, tpTimeVars, configVars,
                  shared_symbols_data, callVars, loc, calls >>

\* The exchange's open positions change (fills, closes). The code reads them
\* at line 139 only, so they change when a worker is about to read them.
PositionsChange(positionLists) ==
  /\ \E w \in Workers : pc[w] = "fetch"
  /\ \E p \in positionLists \ {positions} : positions' = p
  /\ UNCHANGED << now, lockVars, tp_orders, bookVars, tpTimeVars, configVars,
                  shared_symbols_data, callVars, loc, calls >>

\* ------------------------------------------------------------ run (42-58)

\* The dispatcher calls run(symbol, rotator_symbols_standardized) on a free
\* worker thread. Line 43: standardized_symbol = symbol.upper().
Run(w, inputs, rotators) ==
  /\ pc[w] = "idle"
  /\ \E s \in inputs, r \in rotators :
       /\ symbol' = [symbol EXCEPT ![w] = Upper(s)]
       /\ rotator' = [rotator EXCEPT ![w] = r]
  /\ pc' = [pc EXCEPT ![w] = "lock_check"]
  /\ UNCHANGED << now, lockVars, positions, tp_orders, bookVars, tpTimeVars, configVars,
                  shared_symbols_data, loc, calls >>

\* line 47: if standardized_symbol not in symbol_locks
LockCheck(w) ==
  /\ pc[w] = "lock_check"
  /\ pc' = [pc EXCEPT ![w] =
              IF IsNone(symbol_locks[symbol[w]]) THEN "lock_create" ELSE "lock_acquire"]
  /\ UNCHANGED << now, lockVars, positions, tp_orders, bookVars, tpTimeVars, configVars,
                  shared_symbols_data, symbol, rotator, loc, calls >>

\* line 48: symbol_locks[standardized_symbol] = threading.Lock()
LockCreate(w) ==
  /\ pc[w] = "lock_create"
  /\ symbol_locks' = [symbol_locks EXCEPT ![symbol[w]] = Some(Lock(symbol[w], w))]
  /\ pc' = [pc EXCEPT ![w] = "lock_acquire"]
  /\ UNCHANGED << now, held, acquired, positions, tp_orders, bookVars, tpTimeVars,
                  configVars, shared_symbols_data, symbol, rotator, loc, calls >>

\* LockAcquire with a fault: the result of acquire() is not looked at.
LockAcquireUnchecked(w) ==
  /\ pc[w] = "lock_acquire"
  /\ held' = held \cup {Val(symbol_locks[symbol[w]])}
  /\ acquired' = [acquired EXCEPT ![w] = symbol_locks[symbol[w]]]
  /\ pc' = [pc EXCEPT ![w] = "init"]
  /\ UNCHANGED << now, symbol_locks, positions, tp_orders, bookVars, tpTimeVars,
                  configVars, shared_symbols_data, symbol, rotator, loc, calls >>

\* lines 50-51: symbol_locks[standardized_symbol].acquire(blocking=False): the
\* lock object found in the map is locked if it is free, and the call goes on
\* to run_single_symbol; otherwise it goes to the else of line 57.
LockAcquire(w) ==
  /\ pc[w] = "lock_acquire"
  /\ LET l == Val(symbol_locks[symbol[w]])
     IN  IF l \notin held
         THEN /\ held' = held \cup {l}
              /\ acquired' = [acquired EXCEPT ![w] = Some(l)]
              /\ pc' = [pc EXCEPT ![w] = "init"]
         ELSE /\ pc' = [pc EXCEPT ![w] = "failed"]
              /\ UNCHANGED << held, acquired >>
  /\ UNCHANGED << now, symbol_locks, positions, tp_orders, bookVars, tpTimeVars,
                  configVars, shared_symbols_data, symbol, rotator, loc, calls >>

\* lines 57-58: the lock was not acquired: run() logs it and returns.
LockFailed(w) ==
  /\ pc[w] = "failed"
  /\ pc' = [pc EXCEPT ![w] = "idle"]
  /\ symbol' = [symbol EXCEPT ![w] = ""]
  /\ rotator' = [rotator EXCEPT ![w] = {}]
  /\ UNCHANGED << now, lockVars, positions, tp_orders, bookVars, tpTimeVars, configVars,
                  shared_symbols_data, loc, calls >>

\* lines 54-56: finally: symbol_locks[standardized_symbol].release(), and
\* run() returns, or lets the exception that ended run_single_symbol go on to
\* its caller. Releasing a lock that is not locked raises RuntimeError and
\* leaves it unlocked.
LockRelease(w) ==
  /\ pc[w] \in {"release", "raised"}
  /\ held' = held \ {Val(symbol_locks[symbol[w]])}
  /\ acquired' = [acquired EXCEPT ![w] = None]
  /\ pc' = [pc EXCEPT ![w] = "idle"]
  /\ symbol' = [symbol EXCEPT ![w] = ""]
  /\ rotator' = [rotator EXCEPT ![w] = {}]
  /\ loc' = [loc EXCEPT ![w] = InitialLocals]
  /\ calls' = [calls EXCEPT ![w] = <<>>]
  /\ UNCHANGED << now, symbol_locks, positions, tp_orders, bookVars, tpTimeVars,
                  configVars, shared_symbols_data >>

\* ------------------------------------------- run_single_symbol (60-522)

Log(w, names) == calls' = [calls EXCEPT ![w] = @ \o names]

Count(log, name) == Cardinality({ i \in DOMAIN log : log[i] = name })

\* The exchange after cancel_all_orders_for_symbol_bybit(s): no open order of
\* s is left, its take-profit orders included.
CancelAllOrders(orders, s) == [orders EXCEPT ![s] = [long |-> 0, short |-> 0]]

\* Startup with a fault: the open orders of the symbol are not cancelled.
StartupNoCancel(w) ==
  /\ pc[w] = "init"
  /\ loc' = [loc EXCEPT ![w] = InitialLocals]
  /\ calls' = [calls EXCEPT ![w] =
                 << "get_max_leverage", "set_leverage", "set_cross_margin",
                    "setup_exchange", "fetch_recent_trades" >>]
  /\ pc' = [pc EXCEPT ![w] = "fetch"]
  /\ UNCHANGED << now, lockVars, positions, tp_orders, bookVars, tpTimeVars, configVars,
                  shared_symbols_data, symbol, rotator >>

\* lines 61-127: the locals, the clean-out of orders, the leverage and margin
\* set-up, the recent-trades check.
Startup(w) ==
  /\ pc[w] = "init"
  /\ loc' = [loc EXCEPT ![w] = InitialLocals]
  /\ tp_orders' = CancelAllOrders(tp_orders, symbol[w])
  /\ calls' = [calls EXCEPT ![w] =
                 << "cancel_all_orders", "get_max_leverage", "set_leverage",
                    "set_cross_margin", "setup_exchange", "fetch_recent_trades" >>]
  /\ pc' = [pc EXCEPT ![w] = "fetch"]
  /\ UNCHANGED << now, lockVars, positions, bookVars, tpTimeVars, configVars,
                  shared_symbols_data, symbol, rotator >>

\* lines 130-172: the top of an iteration: the clock is read, the open
\* positions are fetched and summarised, the open orders are fetched. The
\* locals every iteration binds again before it reads them (lines 203-219,
\* 230, 320-323, 377) start the iteration as they start the function.
FetchPositions(w) ==
  /\ pc[w] = "fetch"
  /\ loc' = [loc EXCEPT ![w].current_time = now,
                        ![w].open_position_data = positions,
                        ![w].position_details = BuildPositionDetails(positions),
                        ![w].open_symbols = ExtractSymbols(positions),
                        ![w].order_book = InitialLocals.order_book,
                        ![w].best_ask_price = InitialLocals.best_ask_price,
                        ![w].best_bid_price = InitialLocals.best_bid_price,
                        ![w].trading_allowed = InitialLocals.trading_allowed,
                        ![w].long_take_profit = InitialLocals.long_take_profit,
                        ![w].short_take_profit = InitialLocals.short_take_profit,
                        ![w].tp_order_counts = InitialLocals.tp_order_counts]
  /\ calls' = [calls EXCEPT ![w] = << "get_all_open_positions", "get_open_orders" >>]
  /\ pc' = [pc EXCEPT ![w] = "equity"]
  /\ UNCHANGED << now, lockVars, positions, tp_orders, bookVars, tpTimeVars, configVars,
                  shared_symbols_data, symbol, rotator >>

\* Where an iteration calls a collaborator first after a sleep: line 139
\* (retry_api_call of get_all_open_positions_bybit) and lines 199-203 (funding
\* rate, current price, order book).
FailurePoints == {"fetch", "orderbook"}

\* A collaborator call fails: retry_api_call raises after its retries or
\* returns None for the open positions, which line 145 iterates (TypeError);
\* an exchange call made directly raises. No statement of run_single_symbol
\* catches an exception, so the function ends there and run() goes to its
\* finally (line 54).
CollaboratorFails(w) ==
  /\ pc[w] \in FailurePoints
  /\ Log(w, << IF pc[w] = "fetch" THEN "get_all_open_positions"
               ELSE "is_funding_rate_acceptable" >>)
  /\ pc' = [pc EXCEPT ![w] = "raised"]
  /\ UNCHANGED << now, lockVars, positions, tp_orders, bookVars, tpTimeVars, configVars,
                  shared_symbols_data, symbol, rotator, loc >>

\* ShouldRefresh with a fault: the interval boundary itself refreshes.
ShouldRefreshEarly(current_time, last_fetch_time, total_equity) ==
  current_time - last_fetch_time >= equity_refresh_interval \/ IsNone(total_equity)

\* line 179: current_time - last_equity_fetch_time > equity_refresh_interval
\*           or total_equity is None
ShouldRefresh(current_time, last_fetch_time, total_equity) ==
  current_time - last_fetch_time > equity_refresh_interval \/ IsNone(total_equity)

\* What a balance call returns: an amount, or None.
Balances == {None, Some(1)}

\* What the collaborators hand to the loop in a scenario: the symbols and
\* rotation lists the dispatcher passes to each worker, the order books, the
\* five-minute spreads, the balances, and whether a take-profit target may
\* be absent for a side that has an entry price.
Scenario(inputs, rotators, books, spreads, balances, targets) ==
  [inputs |-> inputs, rotators |-> rotators, books |-> books, spreads |-> spreads,
   balances |-> balances, targets |-> targets]

\* RefreshEquity with a fault: an absent total equity does not end the
\* iteration.
RefreshEquityNoSkip(w, balances) ==
  /\ pc[w] = "equity"
  /\ IF ShouldRefresh(loc[w].current_time, loc[w].last_equity_fetch_time,
                      loc[w].total_equity)
     THEN \E total \in balances, available \in balances :
            /\ loc' = [loc EXCEPT ![w].total_equity = total,
                                  ![w].available_equity = available,
                                  ![w].last_equity_fetch_time = loc[w].current_time]
            /\ calls' = [calls EXCEPT ![w] = @ \o << "get_balance", "get_available_balance" >>]
     ELSE UNCHANGED << loc, calls >>
  /\ pc' = [pc EXCEPT ![w] = "blacklist"]
  /\ UNCHANGED << now, lockVars, positions, tp_orders, bookVars, tpTimeVars, configVars,
                  shared_symbols_data, symbol, rotator >>

\* lines 179-191: the time-gated refresh of the equity; an absent total
\* equity ends the iteration (sleep, continue).
RefreshEquity(w, balances) ==
  /\ pc[w] = "equity"
  /\ IF ShouldRefresh(loc[w].current_time, loc[w].last_equity_fetch_time,
                      loc[w].total_equity)
     THEN \E total \in balances, available \in balances :
            /\ loc' = [loc EXCEPT ![w].total_equity = total,
                                  ![w].available_equity = available,
                                  ![w].last_equity_fetch_time = loc[w].current_time]
            /\ Log(w, << "get_balance", "get_available_balance" >>)
            /\ pc' = [pc EXCEPT ![w] = IF IsNone(total) THEN "fetch" ELSE "blacklist"]
     ELSE /\ pc' = [pc EXCEPT ![w] = "blacklist"]
          /\ UNCHANGED << loc, calls >>
  /\ UNCHANGED << now, lockVars, positions, tp_orders, bookVars, tpTimeVars, configVars,
                  shared_symbols_data, symbol, rotator >>

\* CheckBlacklist with a fault: the loop goes on for a blacklisted symbol.
CheckBlacklistIgnored(w) ==
  /\ pc[w] = "blacklist"
  /\ pc' = [pc EXCEPT ![w] = "orderbook"]
  /\ UNCHANGED << now, lockVars, positions, tp_orders, bookVars, tpTimeVars, configVars,
                  shared_symbols_data, symbol, rotator, loc, calls >>

\* lines 193-196: a blacklisted symbol leaves the loop (break); run() then
\* releases the lock.
CheckBlacklist(w) ==
  /\ pc[w] = "blacklist"
  /\ pc' = [pc EXCEPT ![w] = IF symbol[w] \in blacklist THEN "release" ELSE "orderbook"]
  /\ UNCHANGED << now, lockVars, positions, tp_orders, bookVars, tpTimeVars, configVars,
                  shared_symbols_data, symbol, rotator, loc, calls >>

\* An order book side: its [price, size] levels, best first.
AskSides == { <<>>, << <<101, 1>> >>, << <<102, 1>>, <<103, 1>> >> }
BidSides == { <<>>, << <<99, 1>> >> }

\* What get_orderbook returns: a mapping that may lack either key.
OrderBooks ==
  { [asks |-> a, bids |-> b] : a \in AskSides, b \in BidSides }
    \cup { [asks |-> a] : a \in AskSides } \cup { [bids |-> b] : b \in BidSides }

\* lines 208 and 215: key in order_book and len(order_book[key]) > 0
HasLevels(order_book, key) ==
  key \in DOMAIN order_book /\ Len(order_book[key]) > 0

\* BestPrice with a fault: the last known price is one value for all symbols.
BestPriceShared(order_book, key, last_known, s) ==
  IF key \in DOMAIN order_book /\ Len(order_book[key]) > 0
  THEN [best |-> Some(order_book[key][1][1]),
        last_known |-> [t \in DOMAIN last_known |-> Some(order_book[key][1][1])]]
  ELSE [best |-> last_known[s], last_known |-> last_known]

\* lines 208-212 (asks) and 215-219 (bids): the pair (best price, last known
\* prices after the step) for one side of the book.
BestPrice(order_book, key, last_known, s) ==
  IF HasLevels(order_book, key)
  THEN [best |-> Some(order_book[key][1][1]),
        last_known |-> [last_known EXCEPT ![s] = Some(order_book[key][1][1])]]
  ELSE [best |-> last_known[s], last_known |-> last_known]

\* The exchange side of get_orderbook: the last live best price it served.
Served(order_book, key, live, s) ==
  IF key \in DOMAIN order_book /\ order_book[key] # <<>>
  THEN [live EXCEPT ![s] = Some(Head(Head(order_book[key])))]
  ELSE live

\* lines 198-244: funding check, current price, order book with the
\* last-known fallback, eligibility, initialize_symbol, moving averages, sleep.
FetchOrderbook(w, books) ==
  /\ pc[w] = "orderbook"
  /\ \E order_book \in books :
       LET s == symbol[w]
           ask == BestPrice(order_book, "asks", last_known_ask, s)
           bid == BestPrice(order_book, "bids", last_known_bid, s)
       IN  /\ last_known_ask' = ask.last_known
           /\ last_known_bid' = bid.last_known
           /\ live_ask' = Served(order_book, "asks", live_ask, s)
           /\ live_bid' = Served(order_book, "bids", live_bid, s)
           /\ loc' = [loc EXCEPT
                        ![w].order_book = order_book,
                        ![w].best_ask_price = ask.best,
                        ![w].best_bid_price = bid.best,
                        ![w].trading_allowed =
                           CanTradeNewSymbol(loc[w].open_symbols, symbols_allowed, s)]
  /\ Log(w, << "is_funding_rate_acceptable", "get_current_price", "get_orderbook",
               "initialize_symbol", "get_all_moving_averages" >>)
  /\ pc' = [pc EXCEPT ![w] = "branch"]
  /\ UNCHANGED << now, lockVars, positions, tp_orders, tpTimeVars, configVars,
                  shared_symbols_data, symbol, rotator >>

\* line 249: symbol in rotator_symbols_standardized
\*           or (symbol in open_symbols or trading_allowed)
ManagingCondition(s, rotator_symbols, open, allowed) ==
  s \in rotator_symbols \/ (s \in open \/ allowed)

\* line 446: symbol in rotator_symbols_standardized
\*           and symbol not in open_symbols and trading_allowed
ProspectingCondition(s, rotator_symbols, open, allowed) ==
  /\ s \in rotator_symbols /\ s \notin open /\ allowed

\* calculate_take_profits_based_on_spread, for one side: no target without an
\* entry price; with one, a target or none.
TakeProfitTargets(pos_price, spread, targets) ==
  IF IsNone(pos_price) THEN {None}
  ELSE { t \in {None, Some(Val(pos_price) + spread)} : IsNone(t) => "none" \in targets }

\* line 345: self.test_orders_enabled
\*           and current_time - self.last_cancel_time >= self.spoofing_interval
ShouldInject(current_time) ==
  test_orders_enabled /\ current_time - last_cancel_time >= spoofing_interval

\* How a call of helperv2 can end.
HelperV2Outcomes == {"return", "raise"}

\* The collaborator calls of lines 252-341, in order.
ManagingCallsBeforeInjection ==
  << "get_api_data", "get_positions", "initialize_symbol",
     "set_position_leverage_long", "set_position_leverage_short",
     "update_dynamic_amounts", "calculate_dynamic_amount_v2",
     "calculate_take_profits", "get_open_tp_order_count" >>

\* lines 252-373: the Managing branch up to the entry/exit evaluator:
\* metrics, snapshot quantities and prices, per-side leverage, sizing,
\* take-profit targets, entry flags, bybit_qs_entry_exit_eri.
ManageEntry(w, spreads, targets) ==
  /\ \E spread \in spreads :
       LET s == symbol[w]
           details == loc[w].position_details
           long_price == DetailsAvgPrice(details, s, "long")
           short_price == DetailsAvgPrice(details, s, "short")
       IN  \E short_tp \in TakeProfitTargets(short_price, spread, targets),
              long_tp \in TakeProfitTargets(long_price, spread, targets) :
             loc' = [loc EXCEPT
                       ![w].five_minute_distance = Some(spread),
                       ![w].long_pos_qty = DetailsQty(details, s, "long"),
                       ![w].short_pos_qty = DetailsQty(details, s, "short"),
                       ![w].long_pos_price = long_price,
                       ![w].short_pos_price = short_price,
                       ![w].short_take_profit = short_tp,
                       ![w].long_take_profit = long_tp,
                       ![w].previous_five_minute_distance = Some(spread)]
  /\ Log(w, ManagingCallsBeforeInjection
               \o (IF ShouldInject(loc[w].current_time) THEN << "helperv2" >> ELSE <<>>)
               \o << "bybit_qs_entry_exit_eri" >>)
  /\ pc' = [pc EXCEPT ![w] = "tp_query"]

\* lines 252-347, helperv2 raising: no statement of run_single_symbol catches
\* the exception, so the function ends at line 347 and run() goes to its
\* finally (line 54).
InjectionFails(w) ==
  /\ pc[w] = "branch"
  /\ ManagingCondition(symbol[w], rotator[w], loc[w].open_symbols, loc[w].trading_allowed)
  /\ ShouldInject(loc[w].current_time)
  /\ "raise" \in HelperV2Outcomes
  /\ Log(w, ManagingCallsBeforeInjection \o << "helperv2" >>)
  /\ pc' = [pc EXCEPT ![w] = "raised"]
  /\ UNCHANGED << now, lockVars, positions, tp_orders, bookVars, tpTimeVars, configVars,
                  shared_symbols_data, symbol, rotator, loc >>

\* lines 377-380: tp_order_counts = get_open_tp_order_count(symbol)
QueryTakeProfits(w) ==
  /\ pc[w] = "tp_query"
  /\ loc' = [loc EXCEPT ![w].tp_order_counts =
                [long_tp_count |-> tp_orders[symbol[w]].long,
                 short_tp_count |-> tp_orders[symbol[w]].short]]
  /\ Log(w, << "get_open_tp_order_count" >>)
  /\ pc' = [pc EXCEPT ![w] = "tp_place"]
  /\ UNCHANGED << now, lockVars, positions, tp_orders, bookVars, tpTimeVars, configVars,
                  shared_symbols_data, symbol, rotator >>

\* ShouldPlaceTakeProfit with a fault: the quantity is not looked at.
ShouldPlaceTakeProfitAnyQty(pos_qty, take_profit, tp_count) ==
  ~IsNone(take_profit) /\ tp_count = 0

\* lines 395 and 400: pos_qty > 0 and take_profit is not None and count == 0
ShouldPlaceTakeProfit(pos_qty, take_profit, tp_count) ==
  pos_qty > 0 /\ ~IsNone(take_profit) /\ tp_count = 0

\* The exchange after bybit_hedge_placetp_maker: one more open take-profit
\* order on the side.
PlaceTakeProfit(orders, s, side) == [orders EXCEPT ![s][side] = @ + 1]

\* lines 395-402: a take-profit order per side that has a quantity, a target
\* and no open take-profit order in the counts just queried.
PlaceTakeProfits(w) ==
  /\ pc[w] = "tp_place"
  /\ LET s == symbol[w]
         l == loc[w]
         place_long == ShouldPlaceTakeProfit(l.long_pos_qty, l.long_take_profit,
                                             l.tp_order_counts.long_tp_count)
         place_short == ShouldPlaceTakeProfit(l.short_pos_qty, l.short_take_profit,
                                              l.tp_order_counts.short_tp_count)
         after_long == IF place_long THEN PlaceTakeProfit(tp_orders, s, "long")
                       ELSE tp_orders
     IN  /\ tp_orders' = IF place_short THEN PlaceTakeProfit(after_long, s, "short")
                          ELSE after_long
         /\ Log(w, (IF place_long THEN << "place_tp_long" >> ELSE <<>>)
                    \o (IF place_short THEN << "place_tp_short" >> ELSE <<>>))
  /\ pc' = [pc EXCEPT ![w] = "resched"]
  /\ UNCHANGED << now, lockVars, positions, bookVars, tpTimeVars, configVars,
                  shared_symbols_data, symbol, rotator, loc >>

\* ShouldReschedule with a fault: the clock is not looked at.
ShouldRescheduleAnyTime(pos_qty, current_time, next_tp_update, take_profit) ==
  pos_qty > 0 /\ ~IsNone(take_profit)

\* lines 407-408 and 424-425: pos_qty > 0, current_time >= next update time
\* and take_profit is not None
ShouldReschedule(pos_qty, current_time, next_tp_update, take_profit) ==
  pos_qty > 0 /\ current_time >= next_tp_update /\ ~IsNone(take_profit)

\* The exchange after update_take_profit_spread_bybit: the side's take-profit
\* order is cancelled and reissued at the new price.
ReissueTakeProfit(orders, s, side) == [orders EXCEPT ![s][side] = 1]

\* lines 404-444: the reschedule of each side that is due, then the
\* cancellation of stale entries and the sleep.
RescheduleTakeProfits(w) ==
  /\ pc[w] = "resched"
  /\ LET s == symbol[w]
         l == loc[w]
         do_long == ShouldReschedule(l.long_pos_qty, now, next_long_tp_update,
                                     l.long_take_profit)
         do_short == ShouldReschedule(l.short_pos_qty, now, next_short_tp_update,
                                      l.short_take_profit)
         after_long == IF do_long THEN ReissueTakeProfit(tp_orders, s, "long")
                       ELSE tp_orders
     IN  /\ tp_orders' = IF do_short THEN ReissueTakeProfit(after_long, s, "short")
                          ELSE after_long
         /\ next_long_tp_update' =
              IF do_long THEN CalculateNextUpdateTime(now) ELSE next_long_tp_update
         /\ next_short_tp_update' =
              IF do_short THEN CalculateNextUpdateTime(now) ELSE next_short_tp_update
         /\ Log(w, (IF do_long THEN << "update_take_profit_long" >> ELSE <<>>)
                    \o (IF do_short THEN << "update_take_profit_short" >> ELSE <<>>)
                    \o << "cancel_entries" >>)
  /\ pc' = [pc EXCEPT ![w] = "publish"]
  /\ UNCHANGED << now, lockVars, positions, bookVars, configVars,
                  shared_symbols_data, symbol, rotator, loc >>

\* lines 448-494: the Prospecting branch: metrics, per-side leverage, sizing,
\* snapshot quantities, bybit_initial_entry_with_qfl_mfi_and_eri.
Prospect(w, spreads) ==
  /\ \E spread \in spreads :
       loc' = [loc EXCEPT
                 ![w].five_minute_distance = Some(spread),
                 ![w].long_pos_qty = DetailsQty(loc[w].position_details, symbol[w], "long"),
                 ![w].short_pos_qty = DetailsQty(loc[w].position_details, symbol[w], "short")]
  /\ Log(w, << "get_api_data", "initialize_symbol", "set_position_leverage_long",
               "set_position_leverage_short", "update_dynamic_amounts",
               "calculate_dynamic_amount_v2", "get_positions",
               "bybit_initial_entry_with_qfl_mfi_and_eri" >>)
  /\ pc' = [pc EXCEPT ![w] = "publish"]

\* Neither line 249 nor line 446 holds: the iteration goes on at line 497.
SkipTrading(w) ==
  /\ pc' = [pc EXCEPT ![w] = "publish"]
  /\ UNCHANGED << loc, calls >>

\* lines 249, 446: if / elif / neither, on the branch conditions.
SelectBranch(w, spreads, targets) ==
  /\ pc[w] = "branch"
  /\ IF ManagingCondition(symbol[w], rotator[w], loc[w].open_symbols,
                          loc[w].trading_allowed)
     THEN ManageEntry(w, spreads, targets)
     ELSE IF ProspectingCondition(symbol[w], rotator[w], loc[w].open_symbols,
                                  loc[w].trading_allowed)
     THEN Prospect(w, spreads)
     ELSE SkipTrading(w)
  /\ UNCHANGED << now, lockVars, positions, tp_orders, bookVars, tpTimeVars, configVars,
                  shared_symbols_data, symbol, rotator >>

\* lines 497-514: symbol_data, with the fields the model follows (the other
\* fields are values of the collaborators, passed through).
SymbolData(s, l) ==
  [ symbol |-> s,
    balance |-> l.total_equity,
    available_bal |-> l.available_equity,
    spread |-> l.five_minute_distance,
    long_pos_qty |-> l.long_pos_qty,
    short_pos_qty |-> l.short_pos_qty,
    long_pos_price |-> l.long_pos_price,
    short_pos_price |-> l.short_pos_price ]

\* StoreSymbolData with a fault: the record is stored under every key.
StoreSymbolDataAll(table, s, data) == [t \in DOMAIN table |-> Some(data)]

\* line 516: shared_symbols_data[symbol] = symbol_data
StoreSymbolData(table, s, data) == [table EXCEPT ![s] = Some(data)]

\* lines 497-522: the status record is published; the next iteration starts.
Publish(w) ==
  /\ pc[w] = "publish"
  /\ shared_symbols_data' =
       StoreSymbolData(shared_symbols_data, symbol[w], SymbolData(symbol[w], loc[w]))
  /\ Log(w, << "publish" >>)
  /\ pc' = [pc EXCEPT ![w] = "fetch"]
  /\ UNCHANGED << now, lockVars, positions, tp_orders, bookVars, tpTimeVars, configVars,
                  symbol, rotator, loc >>

\* ---------------------------------------------------------- specifications

\* A step of a call of run() whose acquire succeeds: the only kind there is
\* when no two calls are given the same symbol.
UncontendedStep(w, sc) ==
  \/ Run(w, sc.inputs[w], sc.rotators)
  \/ LockCheck(w)
  \/ LockCreate(w)
  \/ LockAcquire(w)
  \/ Startup(w)
  \/ FetchPositions(w)
  \/ RefreshEquity(w, sc.balances)
  \/ CheckBlacklist(w)
  \/ FetchOrderbook(w, sc.books)
  \/ SelectBranch(w, sc.spreads, sc.targets)
  \/ QueryTakeProfits(w)
  \/ PlaceTakeProfits(w)
  \/ RescheduleTakeProfits(w)
  \/ Publish(w)
  \/ LockRelease(w)

\* The steps of one worker thread.
WorkerStep(w, sc) ==
  \/ UncontendedStep(w, sc)
  \/ LockFailed(w)

\* The concurrency scenario: the dispatcher hands any symbol to any worker
\* thread; AAA holds a long and a short position, BBB is blacklisted, and the
\* collaborators answer with one order book, one spread and a balance.
ConcurrentPositions ==
  { << Record("AAA", AllKeys, "Buy", 1, 5), Record("AAA", AllKeys, "Sell", 1, 7) >> }

ConcurrentScenario ==
  Scenario([w \in Workers |-> InputSymbols], {Symbols},
           { [asks |-> << <<101, 1>> >>, bids |-> << <<99, 1>> >>] }, {1}, {Some(1)}, {"some"})

Init == InitWith(ConcurrentPositions, {{"BBB"}}, {MaxSymbolsAllowed}, {FALSE})

Next == \E w \in Workers : WorkerStep(w, ConcurrentScenario)

Spec == Init /\ [][Next]_vars

\* The loop scenario: one worker thread runs AAA, in or out of the rotation
\* list and of the blacklist; the clock moves, the positions change and the
\* balance calls may come back empty.
LoopScenario ==
  Scenario([w \in Workers |-> {"AAA", "aaa"}], {{}, Symbols},
           { [asks |-> << <<101, 1>> >>, bids |-> << <<99, 1>> >>] },
           {1}, Balances, {"none", "some"})

InitLoop == InitWith(LoopPositionLists, {{}, {"AAA"}}, 1..MaxSymbolsAllowed, {FALSE})

NextLoop ==
  \/ UncontendedStep("t1", LoopScenario)
  \/ Tick
  \/ PositionsChange(LoopPositionLists)

SpecLoop == InitLoop /\ [][NextLoop]_vars

\* The order-book scenario: each worker thread is dispatched for its own
\* symbol and the exchange serves any order book.
BookScenario ==
  Scenario(("t1" :> {"AAA"}) @@ ("t2" :> {"BBB"}), {Symbols}, OrderBooks, {1},
           {Some(1)}, {"some"})

InitBook == InitWith(ConcurrentPositions, {{}, {"BBB"}}, {MaxSymbolsAllowed}, {FALSE})

NextBook == \E w \in Workers : UncontendedStep(w, BookScenario)

SpecBook == InitBook /\ [][NextBook]_vars

\* The failure scenario: one worker thread runs AAA; collaborator calls may
\* fail and test orders may be enabled.
FailScenario ==
  Scenario([w \in Workers |-> {"AAA"}], {{}, Symbols},
           { [asks |-> << <<101, 1>> >>, bids |-> << <<99, 1>> >>] },
           {1}, Balances, {"some"})

InitFail == InitWith(LoopPositionLists, {{}, {"AAA"}}, {MaxSymbolsAllowed}, BOOLEAN)

NextFail ==
  \/ UncontendedStep("t1", FailScenario)
  \/ CollaboratorFails("t1")
  \/ InjectionFails("t1")

SpecFail == InitFail /\ [][NextFail]_vars

\* The two-symbol scenario: one strategy instance runs AAA on one worker
\* thread and BBB on the other, both with a long position, while the clock
\* moves.
TwoSymbolPositions ==
  { << Record("AAA", AllKeys, "Buy", 1, 5), Record("BBB", AllKeys, "Buy", 1, 5) >> }

TwoSymbolScenario ==
  Scenario(("t1" :> {"AAA"}) @@ ("t2" :> {"BBB"}), {Symbols},
           { [asks |-> << <<101, 1>> >>, bids |-> << <<99, 1>> >>] },
           {1}, {Some(1)}, {"some"})

InitTwo == InitWith(TwoSymbolPositions, {{}, {"BBB"}}, {MaxSymbolsAllowed}, {FALSE})

NextTwo ==
  \/ \E w \in Workers : UncontendedStep(w, TwoSymbolScenario)
  \/ Tick

SpecTwo == InitTwo /\ [][NextTwo]_vars

\* The snapshot-build scenario: the exchange holds any list of at most
\* MaxRecords raw records, or a malformed record between two well-formed
\* ones, when a worker thread reaches its first iteration.
BuildScenario ==
  Scenario([w \in Workers |-> {"AAA"}], {Symbols}, OrderBooks, {1}, {Some(1)}, {"some"})

InitBuild ==
  InitWith(WidePositionLists \cup SandwichLists, {{}}, {MaxSymbolsAllowed}, {FALSE})

NextBuild ==
  \/ Run("t1", BuildScenario.inputs["t1"], BuildScenario.rotators)
  \/ LockCheck("t1")
  \/ LockCreate("t1")
  \/ LockAcquire("t1")
  \/ Startup("t1")
  \/ FetchPositions("t1")

SpecBuild == InitBuild /\ [][NextBuild]_vars

\* ------------------------------------------------------------------ claims

\* Where a worker is inside run_single_symbol (lines 60-522).
InsideRunSingleSymbol(w) ==
  pc[w] \in {"init", "fetch", "equity", "blacklist", "orderbook", "branch",
             "tp_query", "tp_place", "resched", "publish"}

\* C1. Mutual exclusion: at no instant are two workers inside
\* run_single_symbol for the same symbol, whatever the interleaving of their
\* run() calls, the race on the lazy creation of the symbol's lock included.
C1_MutualExclusion ==
  \A w1, w2 \in Workers :
    (w1 # w2 /\ InsideRunSingleSymbol(w1) /\ InsideRunSingleSymbol(w2))
      => symbol[w1] # symbol[w2]

\* What a run() call can change besides its own position: the locks, the
\* exchange, the strategy's attributes, the status table, its locals, its calls.
Effects(w) ==
  << held, acquired, symbol_locks, tp_orders, positions, last_known_ask,
     last_known_bid, next_long_tp_update, next_short_tp_update,
     shared_symbols_data, loc[w], calls[w] >>

\* C2. A run(symbol) call whose acquire() fails is a no-op: it does not wait,
\* it goes to the else of line 57 and returns, and on the way it executes no
\* step of run_single_symbol and changes nothing.
C2_FailedAcquireIsNoOp ==
  [][\A w \in Workers :
       /\ (pc[w] = "lock_acquire" /\ Val(symbol_locks[symbol[w]]) \in held
             /\ pc'[w] # pc[w])
            => (pc'[w] = "failed" /\ UNCHANGED Effects(w))
       /\ (pc[w] = "failed" /\ pc'[w] # pc[w])
            => (pc'[w] = "idle" /\ UNCHANGED Effects(w))]_vars

\* A worker is at line 58, its acquire() having failed, while another worker
\* is inside run_single_symbol for the same symbol.
C2_Witness ==
  \E w, holder \in Workers :
    /\ w # holder
    /\ pc[w] = "failed"
    /\ InsideRunSingleSymbol(holder)
    /\ symbol[holder] = symbol[w]
    /\ calls[holder] # <<>>
    /\ calls[w] = <<>>

\* The quantity the exchange holds for a side of a symbol.
ExchangeQty(s, side) == DetailsQty(BuildPositionDetails(positions), s, side)

\* C3. Take-profit singleton: a (symbol, side) with a quantity > 0 never has
\* more than one open take-profit order.
C3_TakeProfitSingleton ==
  \A s \in Symbols, side \in {"long", "short"} :
    ExchangeQty(s, side) > 0 => tp_orders[s][side] <= 1

\* The records of a list that count for a side of a symbol: they hold the
\* three keys, name the symbol and carry the side.
RecordsFor(data, s, side) ==
  { i \in DOMAIN data :
      /\ {"size", "side", "avgPrice"} \subseteq data[i].keys
      /\ Head(data[i].symbol) = s
      /\ data[i].side = (IF side = "long" THEN "Buy" ELSE "Sell") }

RECURSIVE SumSizes(_, _)
SumSizes(data, indices) ==
  IF indices = {} THEN 0
  ELSE LET i == CHOOSE j \in indices : TRUE
       IN data[i].size + SumSizes(data, indices \ {i})

LastOf(indices) == CHOOSE i \in indices : \A j \in indices : j <= i

\* C4. Snapshot accumulation: the quantity of a (symbol, side) in the
\* snapshot is the sum of the sizes of the well-formed records of that
\* (symbol, side) in the fetched list, and its average price is the one of
\* the last such record.
C4_SnapshotAccumulation ==
  \A w \in Workers :
    pc[w] = "equity" =>
      \A s \in Symbols, side \in {"long", "short"} :
        LET data == loc[w].open_position_data
            indices == RecordsFor(data, s, side)
            details == loc[w].position_details
        IN  /\ DetailsQty(details, s, side) = SumSizes(data, indices)
            /\ indices # {} =>
                 DetailsAvgPrice(details, s, side) = Some(data[LastOf(indices)].avgPrice)

\* Two records of one (symbol, side), with sizes q1, q2 > 0 and different
\* average prices, have been summarised: quantity q1 + q2, price p2.
C4_Witness ==
  \E w \in Workers :
    /\ pc[w] = "equity"
    /\ LET data == loc[w].open_position_data
       IN  /\ RecordsFor(data, symbol[w], "long") = {1, 2}
           /\ data[1].size > 0 /\ data[2].size > 0
           /\ data[1].avgPrice # data[2].avgPrice
           /\ loc[w].position_details[symbol[w]].long =
                [qty |-> data[1].size + data[2].size, avg_price |-> data[2].avgPrice]

\* C5. Refresh gating: an iteration that starts with the total equity set and
\* within equity_refresh_interval of the last fetch issues no equity fetch; one
\* that starts after the interval has elapsed, or with the total equity
\* unset, issues exactly one balance fetch and one available-balance fetch.
C5_RefreshGating ==
  [][\A w \in Workers :
       (pc[w] = "equity" /\ pc'[w] # "equity") =>
         LET l == loc[w]
             within == l.current_time - l.last_equity_fetch_time <= equity_refresh_interval
             fetches ==
               << Count(calls'[w], "get_balance") - Count(calls[w], "get_balance"),
                  Count(calls'[w], "get_available_balance")
                    - Count(calls[w], "get_available_balance") >>
         IN  IF ~IsNone(l.total_equity) /\ within
             THEN fetches = << 0, 0 >> /\ loc'[w].total_equity = l.total_equity
             ELSE fetches = << 1, 1 >>
                    /\ loc'[w].last_equity_fetch_time = l.current_time]_vars

\* An iteration that started a positive time after the last fetch, within the
\* interval, has passed the gate without a fetch.
C5_Witness ==
  \E w \in Workers :
    /\ pc[w] = "blacklist"
    /\ ~IsNone(loc[w].total_equity)
    /\ loc[w].current_time > loc[w].last_equity_fetch_time
    /\ loc[w].current_time - loc[w].last_equity_fetch_time <= equity_refresh_interval
    /\ Count(calls[w], "get_balance") = 0

\* A side of the order book of the iteration has no level.
SideEmpty(order_book, key) ==
  key \notin DOMAIN order_book \/ order_book[key] = <<>>

\* C6. Fallback: in an iteration whose order book has no asks (bids), the
\* best ask (bid) is the last live best ask (bid) the exchange served for the
\* same symbol before, and is absent if it never served one.
C6_FallbackMonotonicity ==
  [][\A w \in Workers :
       (pc[w] = "orderbook" /\ pc'[w] = "branch") =>
         /\ SideEmpty(loc'[w].order_book, "asks")
              => loc'[w].best_ask_price = live_ask[symbol[w]]
         /\ SideEmpty(loc'[w].order_book, "bids")
              => loc'[w].best_bid_price = live_bid[symbol[w]]]_vars

\* A worker fell back to the last live ask of its symbol while the other
\* symbol's last known ask is another value, and found no bid at all for its
\* symbol while the other symbol has a last known bid.
C6_Witness ==
  \E w \in Workers, other \in Symbols :
    /\ pc[w] = "branch"
    /\ other # symbol[w]
    /\ SideEmpty(loc[w].order_book, "asks")
    /\ ~IsNone(loc[w].best_ask_price)
    /\ ~IsNone(last_known_ask[other])
    /\ last_known_ask[other] # loc[w].best_ask_price
    /\ SideEmpty(loc[w].order_book, "bids")
    /\ IsNone(loc[w].best_bid_price)
    /\ ~IsNone(last_known_bid[other])

\* The worker has passed the branch selection of the iteration.
PastBranch(w) == pc[w] \in {"tp_query", "tp_place", "resched", "publish"}

\* The calls of the Managing branch.
ManagingCalls ==
  {"bybit_qs_entry_exit_eri", "place_tp_long", "place_tp_short",
   "update_take_profit_long", "update_take_profit_short"}

\* The calls that set a leverage.
LeverageCalls ==
  {"set_leverage", "set_position_leverage_long", "set_position_leverage_short"}

Made(w, names) == { calls[w][i] : i \in DOMAIN calls[w] } \cap names

\* C7. Prospecting: in an iteration where the symbol has no open position, is
\* in the rotation list and is eligible by budget, the initial-entry evaluator
\* is invoked exactly once and nothing of the Managing branch is executed.
C7_ProspectingScenario ==
  \A w \in Workers :
    ( /\ PastBranch(w)
      /\ symbol[w] \notin loc[w].open_symbols
      /\ symbol[w] \in rotator[w]
      /\ loc[w].trading_allowed )
    => /\ Count(calls[w], "bybit_initial_entry_with_qfl_mfi_and_eri") = 1
       /\ Made(w, ManagingCalls) = {}

\* C8. Budget rule: in an iteration where the budget is exceeded and the
\* symbol has no exposure, no entry evaluator is invoked, no leverage is set
\* and no take-profit order is placed or rescheduled.
C8_BudgetRule ==
  \A w \in Workers :
    ( /\ PastBranch(w)
      /\ symbol[w] \notin loc[w].open_symbols
      /\ ~loc[w].trading_allowed )
    => Made(w, ManagingCalls \cup LeverageCalls
                 \cup {"bybit_initial_entry_with_qfl_mfi_and_eri"}) = {}

\* The calls that change something at the exchange.
MutationCalls ==
  ManagingCalls \cup LeverageCalls
    \cup {"cancel_all_orders", "set_cross_margin", "cancel_entries",
          "bybit_initial_entry_with_qfl_mfi_and_eri"}

\* C9. Blacklist termination: the iteration that finds its symbol in the
\* blacklist leaves the loop having issued no exchange mutation call, and the
\* loop runs no iteration after it: run() releases the lock and returns.
C9_BlacklistTermination ==
  [][\A w \in Workers :
       /\ (pc[w] = "blacklist" /\ symbol[w] \in blacklist /\ pc'[w] # pc[w])
            => (pc'[w] = "release" /\ Made(w, MutationCalls) = {}
                  /\ calls'[w] = calls[w] /\ tp_orders' = tp_orders)
       /\ (pc[w] = "release" /\ pc'[w] # pc[w]) => pc'[w] = "idle"]_vars

\* A worker has left the loop on the blacklist, after the reads of the
\* iteration (positions, open orders, balances).
C9_Witness ==
  \E w \in Workers :
    /\ pc[w] = "release"
    /\ symbol[w] \in blacklist
    /\ Count(calls[w], "get_all_open_positions") = 1
    /\ Count(calls[w], "get_balance") = 1

\* The steps of an iteration after the equity refresh.
AfterEquity(w) ==
  pc[w] \in {"blacklist", "orderbook", "branch", "tp_query", "tp_place", "resched",
             "publish"}

\* C10. Absent equity defers the cycle: when the total equity is absent
\* after the refresh, the iteration ends there and a new one starts; every
\* later step of an iteration, sizing and leverage calls included, runs with a
\* total equity that is not absent.
C10_AbsentEquityDefers ==
  /\ [](\A w \in Workers : AfterEquity(w) => ~IsNone(loc[w].total_equity))
  /\ [][\A w \in Workers :
          (pc[w] = "equity" /\ pc'[w] # pc[w] /\ IsNone(loc'[w].total_equity))
            => /\ pc'[w] = "fetch"
               /\ shared_symbols_data' = shared_symbols_data
               /\ { calls'[w][i] : i \in DOMAIN calls'[w] } \subseteq
                    {"get_all_open_positions", "get_open_orders", "get_balance",
                     "get_available_balance"}]_vars

\* The refresh came back without a total equity and the worker is back at
\* the top of the loop.
C10_Witness ==
  \E w \in Workers :
    /\ pc[w] = "fetch"
    /\ IsNone(loc[w].total_equity)
    /\ Count(calls[w], "get_balance") = 1

\* The calls that take best_ask_price as an argument (lines 234, 285-296,
\* 441, 468-479) or the entry flags computed from the best prices (330-339,
\* 352, 487-490).
PriceCalls ==
  {"initialize_symbol", "set_position_leverage_long", "set_position_leverage_short",
   "update_dynamic_amounts", "calculate_dynamic_amount_v2", "bybit_qs_entry_exit_eri",
   "bybit_initial_entry_with_qfl_mfi_and_eri", "cancel_entries"}

\* The steps of an iteration after the order book was read.
AfterOrderbook(w) ==
  pc[w] \in {"branch", "tp_query", "tp_place", "resched", "publish"}

\* C11. Missing market data short-circuits trading: in an iteration whose best
\* ask or best bid is absent (the side of the book is empty and the symbol has
\* no last known price), no sizing or leverage call, no entry evaluator and
\* no entry cancellation is made with the absent price.
C11_MissingDataShortCircuits ==
  \A w \in Workers :
    ( /\ AfterOrderbook(w)
      /\ (IsNone(loc[w].best_ask_price) \/ IsNone(loc[w].best_bid_price)) )
    => Made(w, PriceCalls) = {}

\* C12. Collaborator failure is never fatal: a step of run_single_symbol,
\* a failing collaborator call included, is followed by another step of the
\* loop with the symbol's lock still held; the loop is left only by the
\* blacklist transition.
C12_CollaboratorFailureNotFatal ==
  [][\A w \in Workers :
       (InsideRunSingleSymbol(w) /\ pc'[w] # pc[w]) =>
          \/ (pc'[w] \in {"fetch", "equity", "blacklist", "orderbook", "branch",
                          "tp_query", "tp_place", "resched", "publish"}
                /\ acquired'[w] = acquired[w] /\ held' = held)
          \/ (pc[w] = "blacklist" /\ symbol[w] \in blacklist /\ pc'[w] = "release")]_vars

\* The names in a call log.
Names(log) == { log[i] : i \in DOMAIN log }

\* C19. Test-order injection is best-effort: an iteration that calls helperv2,
\* whether the call returns or fails, goes on to the entry/exit evaluator and
\* to the take-profit handling of the same iteration, inside the loop.
C19_InjectionBestEffort ==
  [][\A w \in Workers :
       (pc[w] = "branch" /\ pc'[w] # pc[w] /\ "helperv2" \in Names(calls'[w]))
         => /\ "bybit_qs_entry_exit_eri" \in Names(calls'[w])
            /\ pc'[w] = "tp_query"]_vars

\* C13. Eligibility rule: the eligibility an iteration computes is true when
\* its symbol is among the open symbols, whatever their number, and false
\* when it is not and the number of open symbols has reached symbols_allowed;
\* with a maximum of 3 and A, B, C open, D is not eligible and A is.
C13_EligibilityRule ==
  /\ \A w \in Workers :
       AfterOrderbook(w) =>
         /\ symbol[w] \in loc[w].open_symbols => loc[w].trading_allowed
         /\ ( symbol[w] \notin loc[w].open_symbols
              /\ Cardinality(loc[w].open_symbols) >= symbols_allowed )
            => ~loc[w].trading_allowed
  /\ ~CanTradeNewSymbol({"A", "B", "C"}, 3, "D")
  /\ CanTradeNewSymbol({"A", "B", "C"}, 3, "A")

\* An iteration found its symbol without a position while the open symbols
\* had reached symbols_allowed, and computed that it may not be traded.
C13_Witness ==
  \E w \in Workers :
    /\ AfterOrderbook(w)
    /\ symbol[w] \notin loc[w].open_symbols
    /\ Cardinality(loc[w].open_symbols) >= symbols_allowed
    /\ ~loc[w].trading_allowed

\* A record that holds the three keys the build needs.
WellFormed(r) == {"size", "side", "avgPrice"} \subseteq r.keys

\* C14. Malformed position records are dropped without aborting the build:
\* the snapshot of a fetched list is the snapshot of the list without its
\* records that miss size, side or avgPrice, so such a record adds nothing and
\* the records before and after it are accumulated.
C14_MalformedRecordsDropped ==
  \A w \in Workers :
    pc[w] = "equity" =>
      LET data == loc[w].open_position_data
      IN  /\ loc[w].position_details = BuildPositionDetails(SelectSeq(data, WellFormed))
          /\ (\A i \in DOMAIN data : ~WellFormed(data[i])) => loc[w].position_details = <<>>

\* A malformed record between two well-formed records of the symbol's side
\* has been summarised: the quantity is the sum of the two, the price the
\* last one's.
C14_Witness ==
  \E w \in Workers :
    /\ pc[w] = "equity"
    /\ LET data == loc[w].open_position_data
       IN  /\ Len(data) = 3
           /\ WellFormed(data[1]) /\ ~WellFormed(data[2]) /\ WellFormed(data[3])
           /\ data[1].side = "Buy" /\ data[2].side = "Buy" /\ data[2].size > 0
           /\ loc[w].position_details[symbol[w]].long =
                [qty |-> data[1].size + data[3].size, avg_price |-> data[3].avgPrice]

\* C15. Lock registry stability: once symbol_locks holds a lock object for a
\* symbol, no step replaces or removes it, whatever the interleaving of the
\* run() calls.
C15_LockRegistryStability ==
  [][\A s \in Symbols :
       ~IsNone(symbol_locks[s]) => symbol_locks'[s] = symbol_locks[s]]_vars

\* C16. Take-profit schedule isolation: a reschedule step of the loop of one
\* symbol leaves unchanged the next-allowed-update times that gate the
\* reschedule of another symbol whose loop the same strategy instance runs.
C16_ScheduleIsolation ==
  [][\A w, other \in Workers :
       ( /\ pc[w] = "resched" /\ pc'[w] # pc[w]
         /\ InsideRunSingleSymbol(other)
         /\ symbol[other] # symbol[w] )
       => /\ next_long_tp_update' = next_long_tp_update
          /\ next_short_tp_update' = next_short_tp_update]_vars

\* C17. Equity cache is account-level: an iteration that starts after another
\* symbol's loop has refreshed the equity, and within the refresh interval of
\* that refresh, issues no equity fetch and works with that loop's value.
C17_EquityCacheShared ==
  [][\A w, other \in Workers :
       ( /\ pc[w] = "equity" /\ pc'[w] # pc[w]
         /\ InsideRunSingleSymbol(other)
         /\ symbol[other] # symbol[w]
         /\ ~IsNone(loc[other].total_equity)
         /\ loc[w].current_time > loc[other].last_equity_fetch_time
         /\ loc[w].current_time - loc[other].last_equity_fetch_time
              <= equity_refresh_interval )
       => /\ calls'[w] = calls[w]
          /\ loc'[w].total_equity = loc[other].total_equity]_vars

\* C18. Status-table frame: a step that changes the entry of a symbol in the
\* shared status table is the publication step of a loop of that symbol, and
\* the step changes no other entry.
C18_StatusTableFrame ==
  [][\A s \in Symbols :
       shared_symbols_data'[s] # shared_symbols_data[s] =>
         /\ \E w \in Workers : pc[w] = "publish" /\ pc'[w] # pc[w] /\ symbol[w] = s
         /\ \A t \in Symbols \ {s} : shared_symbols_data'[t] = shared_symbols_data[t]
         /\ Val(shared_symbols_data'[s]).symbol = s]_vars

\* The loop of one symbol has just published its entry while the entry of
\* the other symbol is in the table.
C18_Witness ==
  \E w \in Workers, other \in Symbols :
    /\ pc[w] = "fetch"
    /\ "publish" \in Names(calls[w])
    /\ other # symbol[w]
    /\ ~IsNone(shared_symbols_data[symbol[w]])
    /\ ~IsNone(shared_symbols_data[other])
    /\ Val(shared_symbols_data[symbol[w]]).symbol = symbol[w]
    /\ Val(shared_symbols_data[other]).symbol = other

\* C20. Take-profit placement rule: the placement step of a Managing-branch
\* iteration calls bybit_hedge_placetp_maker for a side exactly when the side's
\* snapshot quantity is > 0, its target is not absent and the count queried
\* for the side after the entry/exit evaluator is 0; otherwise it places none,
\* so none is ever placed for a side with zero quantity.
C20_TakeProfitPlacementRule ==
  [][\A w \in Workers :
       (pc[w] = "tp_place" /\ pc'[w] # pc[w]) =>
          LET s == symbol[w]
              l == loc[w]
              long_due == /\ DetailsQty(l.position_details, s, "long") > 0
                          /\ l.long_take_profit # None
                          /\ l.tp_order_counts.long_tp_count = 0
              short_due == /\ DetailsQty(l.position_details, s, "short") > 0
                           /\ l.short_take_profit # None
                           /\ l.tp_order_counts.short_tp_count = 0
          IN  /\ long_due <=> "place_tp_long" \in Names(calls'[w])
              /\ short_due <=> "place_tp_short" \in Names(calls'[w])
              /\ "bybit_qs_entry_exit_eri" \in Names(calls[w])]_vars

\* A placement step has placed a long take-profit order and none for the
\* short side, which has a target and no open take-profit order but no
\* quantity.
C20_Witness ==
  \E w \in Workers :
    /\ pc[w] = "resched"
    /\ Names(calls[w]) \cap {"place_tp_long", "place_tp_short"} = {"place_tp_long"}
    /\ loc[w].long_pos_qty > 0
    /\ loc[w].short_pos_qty = 0
    /\ loc[w].short_take_profit # None
    /\ loc[w].tp_order_counts.short_tp_count = 0

\* C21. Reschedule gating: the reschedule step calls
\* update_take_profit_spread_bybit for a side only when the side's quantity is
\* > 0, the clock has reached the side's next-update time and the side's
\* target is not absent; a call replaces the side's next-update time by the
\* value it returns, and without a call the time stays as it is.
C21_RescheduleGating ==
  [][\A w \in Workers :
       (pc[w] = "resched" /\ pc'[w] # pc[w]) =>
          LET l == loc[w]
              long_called == "update_take_profit_long" \in Names(calls'[w])
              short_called == "update_take_profit_short" \in Names(calls'[w])
          IN  /\ long_called =>
                   /\ l.long_pos_qty > 0 /\ now >= next_long_tp_update
                   /\ l.long_take_profit # None
                   /\ next_long_tp_update' = CalculateNextUpdateTime(now)
              /\ short_called =>
                   /\ l.short_pos_qty > 0 /\ now >= next_short_tp_update
                   /\ l.short_take_profit # None
                   /\ next_short_tp_update' = CalculateNextUpdateTime(now)
              /\ ~long_called => next_long_tp_update' = next_long_tp_update
              /\ ~short_called => next_short_tp_update' = next_short_tp_update]_vars

\* The long side has been rescheduled and its next-update time moved past
\* the clock, while the short side, with a quantity and a target, was left
\* alone because its time had not come.
C21_Witness ==
  \E w \in Workers :
    /\ pc[w] = "publish"
    /\ Names(calls[w]) \cap {"update_take_profit_long", "update_take_profit_short"}
         = {"update_take_profit_long"}
    /\ next_long_tp_update > now
    /\ loc[w].short_pos_qty > 0
    /\ loc[w].short_take_profit # None
    /\ next_short_tp_update > now

\* The spread the preceding iteration of the symbol's loop published (line
\* 503): the one measured by the preceding Managing-branch iteration; absent
\* when nothing was published yet.
PublishedSpread(s) ==
  IF IsNone(shared_symbols_data[s]) THEN None ELSE Val(shared_symbols_data[s]).spread

\* C22. Previous-spread semantics: when the reschedule step calls
\* update_take_profit_spread_bybit, the previous five-minute spread it passes
\* is the spread measured in the preceding Managing-branch iteration, absent
\* in the first one.
C22_PreviousSpread ==
  [][\A w \in Workers :
       ( /\ pc[w] = "resched" /\ pc'[w] # pc[w]
         /\ Names(calls'[w])
              \cap {"update_take_profit_long", "update_take_profit_short"} # {} )
       => loc[w].previous_five_minute_distance = PublishedSpread(symbol[w])]_vars

\* C23. Zero-quantity sides carry no entry price: after the Managing branch
\* has read the snapshot, a side of the symbol with quantity 0 has an absent
\* average entry price, also when the opposite side has a position.
C23_ZeroQuantityNoPrice ==
  \A w \in Workers :
    PastBranch(w) =>
      /\ loc[w].long_pos_qty = 0 => IsNone(loc[w].long_pos_price)
      /\ loc[w].short_pos_qty = 0 => IsNone(loc[w].short_pos_price)

\* The calls of the Initializing step.
InitializingCalls == {"cancel_all_orders", "set_leverage", "set_cross_margin"}

\* The position of the only occurrence of a name in a call log, 0 when the
\* name does not occur exactly once.
IndexOf(log, name) ==
  IF Count(log, name) = 1 THEN CHOOSE i \in DOMAIN log : log[i] = name ELSE 0

\* C24. Initialization ordering: a run() that acquires the lock goes through
\* the Initializing step before anything else: the step cancels the open
\* orders of the symbol, then sets the leverage, then the cross margin, each
\* once, and is followed by the first position refresh; no iteration of the
\* loop makes any of these calls again, and the first iteration comes only
\* after the step, for a blacklisted symbol too.
C24_InitializationOrdering ==
  /\ [](\A w \in Workers :
          pc[w] \in {"equity", "blacklist", "orderbook", "branch", "tp_query",
                     "tp_place", "resched", "publish", "release"}
            => Made(w, InitializingCalls) = {})
  /\ [][\A w \in Workers :
          /\ (pc[w] = "lock_acquire" /\ InsideRunSingleSymbol(w)') => pc'[w] = "init"
          /\ (pc'[w] = "fetch" /\ pc[w] \notin {"fetch", "equity", "publish"})
               => pc[w] = "init"
          /\ (pc[w] = "init" /\ pc'[w] # pc[w]) =>
               /\ pc'[w] = "fetch"
               /\ 0 < IndexOf(calls'[w], "cancel_all_orders")
               /\ IndexOf(calls'[w], "cancel_all_orders") < IndexOf(calls'[w], "set_leverage")
               /\ IndexOf(calls'[w], "set_leverage") < IndexOf(calls'[w], "set_cross_margin")
               /\ Names(calls'[w]) \cap ManagingCalls = {}]_vars

\* A run() for a blacklisted symbol has gone through the Initializing step
\* and stands before its first, and last, position refresh.
C24_Witness ==
  \E w \in Workers :
    /\ pc[w] = "fetch"
    /\ symbol[w] \in blacklist
    /\ Made(w, InitializingCalls) = InitializingCalls

\* C25. Release correctness: the release step of a worker releases the lock
\* object the worker acquired, which is locked at that moment and which no
\* other worker has acquired; after the step the object is free and the
\* worker holds nothing.
C25_ReleaseCorrectness ==
  [][\A w \in Workers :
       (pc[w] \in {"release", "raised"} /\ pc'[w] # pc[w]) =>
          LET released == held \ held'
          IN  /\ ~IsNone(acquired[w])
              /\ released = {Val(acquired[w])}
              /\ \A other \in Workers \ {w} :
                   IsNone(acquired[other]) \/ Val(acquired[other]) \notin released
              /\ IsNone(acquired'[w])]_vars

====
